---- MODULE Spec2Model ----
(***************************************************************************)
(* Model of chaoslib/provider/process.py: the process activity provider.   *)
(*   validate_process_activity(activity)                                   *)
(*   run_process_activity(activity, configuration, secrets)                *)
(* Python values are records [t, i, s] (type tag, integer part, string     *)
(* part) so that values of different Python types can be compared.         *)
(***************************************************************************)
EXTENDS Integers, Sequences, FiniteSets, TLC

\* activity, configuration, secrets: the inputs the engine holds (immutable).
\* fs: the kind of each tracked file.  pc: where the call in progress is:
\* "idle" (no call), "resolving" (validate_process_activity inside
\* shutil.which, line 90), "checking" (between shutil.which, line 90, and
\* os.access, line 96), "searching" (run_process_activity inside
\* shutil.which, line 43), "spawning" (between shutil.which, line 43, and
\* subprocess.run, line 47), "waiting" (blocked in subprocess.run).
\* scan: the candidate and the system call shutil.which is at.  op: the
\* call entered last ("none", "validate", "run") and result: how it ended.
\* path: the local `path` of validate_process_activity after line 90.
\* proc: the child process of the call; spawned: the OS processes the call
\* has created; argv: the local `args` of run_process_activity; expected,
\* timeout: its other locals.  fresh: validate_process_activity has
\* accepted the activity and the filesystem has not changed since that
\* call was entered; runFresh: the value of fresh when the last run was
\* entered.  current: the filesystem has not changed since the last call
\* was entered.
\* others: the changes other processes can make to the tracked files, as
\* <<file, kind>> pairs (immutable).
\* Every system call reads the filesystem once, and the filesystem may
\* change between any two of them.
VARIABLES activity, configuration, secrets, others, fs, pc, scan, op,
          result, path, proc, spawned, argv, expected, timeout, fresh,
          runFresh, current

vars == <<activity, configuration, secrets, others, fs, pc, scan, op,
          result, path, proc, spawned, argv, expected, timeout, fresh,
          runFresh, current>>

(* ------------------------------------------------------------------ *)
(* Bounds                                                              *)
(* ------------------------------------------------------------------ *)
\* Largest number of key/value pairs of an arguments mapping.
MaxArgs == 3

(* ------------------------------------------------------------------ *)
(* Python values                                                       *)
(* ------------------------------------------------------------------ *)
PyNone == [t |-> "none", i |-> 0, s |-> ""]
Absent == [t |-> "absent", i |-> 0, s |-> ""]
PyList == [t |-> "list", i |-> 0, s |-> ""]
PyInt(n) == [t |-> "int", i |-> n, s |-> ""]
PyFloat(tenths) == [t |-> "float", i |-> tenths, s |-> ""]
PyStr(x) == [t |-> "str", i |-> 0, s |-> x]

\* dict.get(key, default): the default when the key is missing.
Get(v, default) == IF v = Absent THEN default ELSE v

\* Python truth value of an object (PyList is the empty list).
Truthy(v) ==
    CASE v.t = "int" -> v.i # 0
      [] v.t = "float" -> v.i # 0
      [] v.t = "str" -> v.s # ""
      [] OTHER -> FALSE

\* isinstance(v, int)
IsInstanceInt(v) == v.t = "int"

\* The strings int() parses, with their values: optional sign, decimal
\* digits, surrounding whitespace. Every other string of the model ("",
\* "x", "--name", ...) is not a literal.
LiteralTable ==
    <<<<"0", 0>>, <<"1", 1>>, <<"2", 2>>, <<"5", 5>>, <<"10", 10>>,
      <<"-1", -1>>, <<"-5", -5>>, <<"+1", 1>>, <<" 1", 1>>, <<"1 ", 1>>,
      <<"01", 1>>, <<"-0", 0>>>>
IntLiterals == {LiteralTable[j][1] : j \in 1..Len(LiteralTable)}
LiteralValue(x) ==
    LiteralTable[CHOOSE j \in 1..Len(LiteralTable) : LiteralTable[j][1] = x][2]

\* A number of tenths truncated toward zero to a whole number.
Trunc(tenths) ==
    IF tenths >= 0 THEN tenths \div 10 ELSE -((-tenths) \div 10)

\* int(v): [exc, v]. Floats (kept in tenths) are truncated toward zero,
\* strings are parsed, None and lists are a TypeError.
int(v) ==
    CASE v.t = "int" -> [exc |-> "none", v |-> v.i]
      [] v.t = "float" -> [exc |-> "none", v |-> Trunc(v.i)]
      [] v.t = "str" /\ v.s \in IntLiterals ->
            [exc |-> "none", v |-> LiteralValue(v.s)]
      [] v.t = "str" /\ v.s \notin IntLiterals ->
            [exc |-> "ValueError", v |-> 0]
      [] OTHER -> [exc |-> "TypeError", v |-> 0]

\* str(v) as "{...}".format renders it.
Format(v) ==
    CASE v.t = "str" -> v.s
      [] v.t = "none" -> "None"
      [] OTHER -> "?"

(* ------------------------------------------------------------------ *)
(* The filesystem and the executable search                            *)
(* ------------------------------------------------------------------ *)
\* os.environ["PATH"], split.
SearchPath == <<"/bin", "/usr/bin">>
\* The files the model tracks, each absent, a symbolic link that loops
\* ("loop"), a file without the execute permission for the current user
\* ("noexec"), a program with it ("exec"), a file with it that the OS
\* cannot execute ("junk": no valid format; "nointerp": the interpreter its
\* first line names is missing; "interp_noexec": that interpreter may not
\* be executed; "interp_notdir": the path of that interpreter crosses a
\* regular file), a directory the current user may search ("dir") or one
\* the user may not ("dirnox").
Files == {"/bin/prog", "/usr/bin/prog"}
Kinds ==
    {"absent", "loop", "noexec", "exec", "junk", "nointerp",
     "interp_noexec", "interp_notdir", "dir", "dirnox"}
\* The commands a provider path can name.
Commands == {"prog", "/usr/bin/prog"}

\* os.path.dirname(cmd) is non-empty
HasDirname(cmd) == cmd \in Files
\* os.path.join(dir, cmd)
Join(dir, cmd) == IF dir = "/bin" THEN "/bin/prog" ELSE "/usr/bin/prog"

Kind(f, fsys) == IF f \in DOMAIN fsys THEN fsys[f] ELSE "absent"

\* os.path.exists(fn): os.stat(fn) succeeds
exists(fn, fsys) == Kind(fn, fsys) \notin {"absent", "loop"}

\* os.access(fn, os.X_OK), and os.access(fn, os.F_OK | os.X_OK)
access_X_OK(fn, fsys) ==
    Kind(fn, fsys) \in {"exec", "junk", "nointerp", "interp_noexec",
                        "interp_notdir", "dir"}

\* os.path.isdir(fn)
isdir(fn, fsys) == Kind(fn, fsys) \in {"dir", "dirnox"}

\* The files shutil.which(cmd) tries, in order: cmd itself when it has a
\* directory part, else cmd under each directory of the search path.  For
\* the empty command every candidate is a directory of the search path,
\* which is no file: none is tried here.
Candidates(cmd) ==
    IF cmd = "" THEN <<>>
    ELSE IF HasDirname(cmd) THEN <<cmd>>
    ELSE [k \in 1..Len(SearchPath) |-> Join(SearchPath[k], cmd)]

\* Where shutil.which is: candidate k, at the system call `stage` of
\* shutil._access_check(fn, mode):
\*   os.path.exists(fn) and os.access(fn, mode) and not os.path.isdir(fn)
NoScan == [k |-> 0, stage |-> "none"]
FirstScan == [k |-> 1, stage |-> "exists"]

\* One system call of shutil.which on the filesystem as it is then: the
\* scan goes on (done FALSE) or which returns `found`.
which_step(cands, sc, fsys) ==
    LET fn == cands[sc.k]
        pass == CASE sc.stage = "exists" -> exists(fn, fsys)
                  [] sc.stage = "access" -> access_X_OK(fn, fsys)
                  [] OTHER -> ~isdir(fn, fsys)
    IN IF pass /\ sc.stage = "isdir"
       THEN [done |-> TRUE, found |-> PyStr(fn), scan |-> NoScan]
       ELSE IF pass
       THEN [done |-> FALSE, found |-> PyNone,
             scan |-> [sc EXCEPT !.stage = IF sc.stage = "exists"
                                            THEN "access" ELSE "isdir"]]
       ELSE IF sc.k < Len(cands)
       THEN [done |-> FALSE, found |-> PyNone,
             scan |-> [k |-> sc.k + 1, stage |-> "exists"]]
       ELSE [done |-> TRUE, found |-> PyNone, scan |-> NoScan]

RECURSIVE which_from(_, _, _)
which_from(cands, sc, fsys) ==
    IF which_step(cands, sc, fsys).done
    THEN which_step(cands, sc, fsys).found
    ELSE which_from(cands, which_step(cands, sc, fsys).scan, fsys)

\* shutil.which(cmd) on a filesystem that stands still during the call:
\* PyStr of the first executable file found, or PyNone.
which(cmd, fsys) ==
    IF Candidates(cmd) = <<>> THEN PyNone
    ELSE which_from(Candidates(cmd), FirstScan, fsys)

(* ------------------------------------------------------------------ *)
(* Results of a call                                                   *)
(* ------------------------------------------------------------------ *)
NoResult ==
    [kind |-> "none", msg |-> "", path |-> "", name |-> "",
     c |-> 0, e |-> 0, o |-> "", r |-> ""]
Returned(c, o, r) ==
    [kind |-> "return", msg |-> "", path |-> "", name |-> "",
     c |-> c, e |-> 0, o |-> o, r |-> r]
ReturnedNone == [NoResult EXCEPT !.kind = "return None"]
Raised(kind, msg) == [NoResult EXCEPT !.kind = kind, !.msg = msg]
InvalidActivity(msg, shown, name) ==
    [NoResult EXCEPT !.kind = "InvalidActivity", !.msg = msg,
                     !.path = shown, !.name = name]

MsgInteger == "return code of a process activity must be an integer"
MsgNoPath == "a process activity must have a path"
MsgNotFound == "path '{path}' cannot be found, in activity '{name}'"
MsgNoAccess == "no access permission to '{path}', in activity '{name}'"
MsgTooLong == "process activity took too long to complete"
MsgFailed == "process activity failed with return code {c} (expected {e})\nSTDOUT: {o}\nSTDERR: {r}"

(* ------------------------------------------------------------------ *)
(* validate_process_activity                                           *)
(* ------------------------------------------------------------------ *)
\* Lines 78-88: the exception raised before the path is looked up, or
\* NoResult to go on.
validate_inputs(a) ==
    LET expected_return_code == Get(a.expected_return_code, PyNone)
        given == Get(a.provider.path, PyNone)
    IN IF Truthy(expected_return_code) /\ ~IsInstanceInt(expected_return_code)
       THEN InvalidActivity(MsgInteger, "", "")
       ELSE IF ~Truthy(given)
       THEN InvalidActivity(MsgNoPath, "", "")
       ELSE NoResult

\* Lines 91-94, on what shutil.which returned.
validate_found(resolved, name) ==
    IF ~Truthy(resolved)
    THEN InvalidActivity(MsgNotFound, Format(resolved), name)
    ELSE NoResult

\* Lines 96-99, on the filesystem os.access reads.
validate_access(resolved, name, fsys) ==
    IF ~access_X_OK(resolved.s, fsys)
    THEN InvalidActivity(MsgNoAccess, Format(resolved), name)
    ELSE ReturnedNone

\* The whole call: fsys is the filesystem during line 90, fsys2 at line 96.
validate_process_activity(a, fsys, fsys2) ==
    LET resolved == which(Get(a.provider.path, PyNone).s, fsys)
    IN IF validate_inputs(a) # NoResult THEN validate_inputs(a)
       ELSE IF validate_found(resolved, a.name) # NoResult
       THEN validate_found(resolved, a.name)
       ELSE validate_access(resolved, a.name, fsys2)

(* ------------------------------------------------------------------ *)
(* run_process_activity: the steps before the process is spawned       *)
(* ------------------------------------------------------------------ *)
\* Mappings (arguments, configuration, secrets) are sequences of
\* <<key, value>> pairs with distinct keys, in iteration order.
Lookup(m, k) ==
    LET hits == {j \in 1..Len(m) : m[j][1] = k}
    IN IF hits = {} THEN Absent ELSE m[CHOOSE j \in hits : TRUE][2]

\* The name a placeholder string refers to ("" when it is no placeholder).
PlaceholderName(x) == IF x = "${v}" THEN "v" ELSE ""

\* chaoslib.substitute: every string value that is a placeholder of a name
\* the configuration or the secrets define is replaced by that value; keys
\* and every other value are returned as they are.
substitute(arguments, config, secret) ==
    LET resolve(val) ==
            IF val.t = "str" /\ PlaceholderName(val.s) # ""
            THEN LET n == PyStr(PlaceholderName(val.s))
                 IN IF Lookup(config, n) # Absent THEN Lookup(config, n)
                    ELSE IF Lookup(secret, n) # Absent THEN Lookup(secret, n)
                    ELSE val
            ELSE val
    IN [j \in 1..Len(arguments) |-> <<arguments[j][1], resolve(arguments[j][2])>>]

\* Mutant of chain: each pair read value before key.
RECURSIVE chain_values_first(_)
chain_values_first(arguments) ==
    IF arguments = <<>> THEN <<>>
    ELSE <<Head(arguments)[2], Head(arguments)[1]>>
            \o chain_values_first(Tail(arguments))

\* itertools.chain.from_iterable(arguments.items())
RECURSIVE chain(_)
chain(arguments) ==
    IF arguments = <<>> THEN <<>>
    ELSE <<Head(arguments)[1], Head(arguments)[2]>> \o chain(Tail(arguments))

\* p not in (None, "")
Kept(p) == ~(p = PyNone \/ p = PyStr(""))

\* Mutant of args: an entry whose value is None or "" is dropped whole.
args_dropping_entries(arguments) ==
    SelectSeq(chain(SelectSeq(arguments, LAMBDA e : Kept(e[2]))), Kept)

\* [p for p in chain if p not in (None, "")]
args(arguments) == SelectSeq(chain(arguments), Kept)

\* args.insert(0, resolved)
args_insert(a, resolved) == <<resolved>> \o a

\* Mutant of JoinFails: the command line is not joined before the spawn.
JoinNeverFails(a) == FALSE

\* " ".join(args) raises TypeError on an item that is not a str.
JoinFails(a) == \E j \in 1..Len(a) : a[j].t # "str"

\* Lines 33-42 and the provider["path"] of line 43: the local values when
\* shutil.which is called, or the exception raised before it.
Prepared(exc, e, t, a) == [exc |-> exc, expected |-> e, timeout |-> t, args |-> a]

run_prepare(a, config, secret) ==
    LET expected_return_code == int(Get(a.expected_return_code, PyInt(0)))
        provider == a.provider
        tmo == Get(provider.timeout, PyNone)
        arguments == IF config # <<>> \/ secret # <<>>
                     THEN substitute(provider.arguments, config, secret)
                     ELSE provider.arguments
    IN IF expected_return_code.exc # "none"
       THEN Prepared(expected_return_code.exc, 0, PyNone, <<>>)
       ELSE IF provider.path = Absent
       THEN Prepared("KeyError", expected_return_code.v, tmo, <<>>)
       ELSE Prepared("none", expected_return_code.v, tmo, args(arguments))

\* Lines 43-46 once shutil.which has returned: the argument vector, and the
\* TypeError of the join or "none".
run_join(a, resolved) ==
    [args |-> args_insert(a, resolved),
     exc |-> IF JoinFails(args_insert(a, resolved)) THEN "TypeError"
             ELSE "none"]

(* ------------------------------------------------------------------ *)
(* run_process_activity: the outcome                                   *)
(* ------------------------------------------------------------------ *)
\* The child process of the current call.  state: "none", "execfailed"
\* (the process was created but could not execute the program, and has been
\* reaped), "running", "exited" or "killed".  stdout, stderr: the bytes it
\* wrote.  held: the child has exited but another process it started still
\* holds its stdout/stderr pipes open, so subprocess.run is still reading.
NoProc ==
    [state |-> "none", returncode |-> 0, stdout |-> "", stderr |-> "",
     held |-> FALSE]
Running == [NoProc EXCEPT !.state = "running"]
ExecFailed == [NoProc EXCEPT !.state = "execfailed"]
Exited(rc, out, err, held) ==
    [state |-> "exited", returncode |-> rc, stdout |-> out, stderr |-> err,
     held |-> held]

\* The errors of subprocess.run when the OS cannot create the pipes or the
\* process (EMFILE, ENOMEM: OSError; EAGAIN: BlockingIOError).
ResourceErrors == {"OSError", "BlockingIOError"}

\* subprocess.run(args, ...) at line 47, once the process is created, on
\* the file args[0] names: the program starts ("none") or the OS error of
\* the exec propagates: ENOENT for a missing file or interpreter, ENOEXEC
\* for a file of no executable format, ELOOP for a looping link, ENOTDIR
\* for an interpreter path that crosses a file, EACCES for a file,
\* interpreter or directory that may not be executed.
spawn_error(a, fsys) ==
    LET k == Kind(a[1].s, fsys)
    IN CASE k = "exec" -> "none"
         [] k \in {"absent", "nointerp"} -> "FileNotFoundError"
         [] k \in {"junk", "loop"} -> "OSError"
         [] k = "interp_notdir" -> "NotADirectoryError"
         [] OTHER -> "PermissionError"

\* The byte strings of the model that are not valid UTF-8.
InvalidUtf8 == {"\\xff"}

\* bytes.decode("utf-8") followed by the newline translation of
\* subprocess (encoding='utf-8', line 50): "\r\n" and "\r" become "\n".
DecodeTable ==
    <<<<"", "">>, <<"done", "done">>, <<"oops", "oops">>,
      <<"a\r\nb", "a\nb">>, <<"\\xff", "">>>>
decode(bytes) ==
    [exc |-> IF bytes \in InvalidUtf8 THEN "UnicodeDecodeError" ELSE "none",
     text |-> DecodeTable[CHOOSE j \in 1..Len(DecodeTable) :
                             DecodeTable[j][1] = bytes][2]]

\* The CompletedProcess subprocess.run returns for an exited child.
Completed(p) ==
    [returncode |-> p.returncode, stdout |-> decode(p.stdout).text,
     stderr |-> decode(p.stderr).text]

FailedActivity(msg, c, e, o, r) ==
    [NoResult EXCEPT !.kind = "FailedActivity", !.msg = msg,
                     !.c = c, !.e = e, !.o = o, !.r = r]

\* Mutant of run_outcome: the exit code is not compared.
run_outcome_unchecked(expected_return_code, p) ==
    Returned(p.returncode, p.stdout, p.stderr)

\* Lines 54-62, on the CompletedProcess.
run_outcome(expected_return_code, p) ==
    IF expected_return_code # p.returncode
    THEN FailedActivity(MsgFailed, p.returncode, expected_return_code,
                        p.stdout, p.stderr)
    ELSE Returned(p.returncode, p.stdout, p.stderr)

\* subprocess.run for an exited child whose output is read to the end: the
\* decoding error propagates, or lines 54-62 run.
completion_outcome(expected_return_code, p) ==
    IF decode(p.stdout).exc # "none" THEN Raised(decode(p.stdout).exc, "")
    ELSE IF decode(p.stderr).exc # "none" THEN Raised(decode(p.stderr).exc, "")
    ELSE run_outcome(expected_return_code, Completed(p))

\* Mutant of proc_after_timeout: the child is left as it is.
proc_left_running(p) == p

\* subprocess.run on expiry of the timeout: the child is killed and waited
\* for (a child that has exited already stays as it is), then
\* TimeoutExpired is raised.
proc_after_timeout(p) ==
    IF p.state = "running" THEN [NoProc EXCEPT !.state = "killed"] ELSE p

\* Mutant of timeout_outcome: the wrong error kind is raised.
timeout_outcome_invalid == InvalidActivity(MsgTooLong, "", "")

\* Lines 51-52.
timeout_outcome == FailedActivity(MsgTooLong, 0, 0, "", "")

(* ------------------------------------------------------------------ *)
(* Inputs                                                              *)
(* ------------------------------------------------------------------ *)
ReturnCodes ==
    {Absent, PyNone, PyInt(0), PyInt(1), PyStr(""), PyStr("1"),
     PyFloat(0), PyFloat(15), PyFloat(-15), PyList}
Paths == {Absent, PyStr("")} \cup {PyStr(c) : c \in Commands}
Timeouts == {Absent, PyInt(5)}
Filesystems == [Files -> Kinds]
\* What other processes can do to the files: anything, or only set and
\* clear the execute permission of the first program of the search path.
AnyChange == Files \X Kinds
FirstProgramChanges == {"/bin/prog"} \X {"noexec", "exec"}

\* What a child process can end with: (returncode, stdout, stderr), the
\* output as the bytes written.
Endings ==
    {<<0, "done", "">>, <<1, "a\r\nb", "oops">>, <<0, "\\xff", "">>}

Activity(erc, given, tmo, arguments) ==
    [name |-> "probe", expected_return_code |-> erc,
     provider |-> [path |-> given, timeout |-> tmo, arguments |-> arguments]]

\* The mappings of at most n pairs with distinct keys over the given keys
\* and values, in every iteration order.
RECURSIVE Mappings(_, _, _)
Mappings(keys, values, n) ==
    IF n = 0 THEN {<<>>}
    ELSE LET shorter == Mappings(keys, values, n - 1)
         IN shorter \cup
            {Append(m, <<k, v>>) :
                m \in {x \in shorter : Len(x) = n - 1},
                k \in keys, v \in values}

DistinctKeys(m) == \A j, k \in 1..Len(m) : j # k => m[j][1] # m[k][1]

ArgKeys == {PyStr("--flag"), PyStr("--name"), PyStr("--skip"), PyStr("")}
ArgValues == {PyNone, PyStr(""), PyStr("x"), PyStr("${v}")}
RichArguments == {m \in Mappings(ArgKeys, ArgValues, MaxArgs) : DistinctKeys(m)}

\* (configuration, secrets) pairs that define the placeholder.
Settings ==
    {<<<<<<PyStr("v"), PyStr("x")>>>>, <<>>>>,
     <<<<<<PyStr("v"), PyStr("")>>>>, <<>>>>,
     <<<<>>, <<<<PyStr("v"), PyStr("s3")>>>>>>}
\* The (arguments, configuration, secrets) triples the lifecycle is
\* explored under: no arguments, a placeholder the configuration defines,
\* and an empty and a non-string value with nothing to substitute.
PlainInputs ==
    {<<<<>>, <<>>, <<>>>>,
     <<<<<<PyStr("--name"), PyStr("${v}")>>>>,
       <<<<PyStr("v"), PyStr("x")>>>>, <<>>>>,
     <<<<<<PyStr("--flag"), PyStr("")>>, <<PyStr("--count"), PyInt(5)>>>>,
       <<>>, <<>>>>}

(* ------------------------------------------------------------------ *)
(* The state machine                                                   *)
(* ------------------------------------------------------------------ *)
Start ==
    /\ pc = "idle" /\ scan = NoScan /\ op = "none" /\ result = NoResult
    /\ path = PyNone /\ proc = NoProc /\ spawned = 0 /\ argv = <<>>
    /\ expected = 0 /\ timeout = PyNone
    /\ fresh = FALSE /\ runFresh = FALSE /\ current = TRUE

\* Any activity over the plain inputs, on any filesystem.
Init ==
    /\ \E e \in ReturnCodes, p \in Paths, t \in Timeouts, x \in PlainInputs :
          /\ activity = Activity(e, p, t, x[1])
          /\ configuration = x[2] /\ secrets = x[3]
    /\ fs \in Filesystems
    /\ others = AnyChange
    /\ Start

\* Any arguments mapping of string and None values under any settings, for a
\* resolvable executable whose first candidate other processes can change,
\* and no timeout.
InitArgs ==
    /\ activity \in {Activity(Absent, PyStr("prog"), Absent, a) :
                        a \in RichArguments}
    /\ \E st \in Settings : configuration = st[1] /\ secrets = st[2]
    /\ fs \in {[f \in Files |-> "exec"],
              [f \in Files |-> IF f = "/bin/prog" THEN "noexec" ELSE "exec"]}
    /\ others = FirstProgramChanges
    /\ Start

\* The engine calls validate_process_activity(activity): lines 78-88, up
\* to the call of shutil.which.
ValidateEnter ==
    /\ pc = "idle"
    /\ op' = "validate"
    /\ current' = TRUE /\ fresh' = FALSE
    /\ proc' = NoProc /\ spawned' = 0 /\ argv' = <<>> /\ path' = PyNone
    /\ result' = validate_inputs(activity)
    /\ IF validate_inputs(activity) # NoResult
       THEN pc' = "idle" /\ scan' = NoScan
       ELSE pc' = "resolving" /\ scan' = FirstScan
    /\ UNCHANGED <<activity, configuration, secrets, others, fs, expected,
                   timeout, runFresh>>

\* shutil.which at line 90 makes one system call; when it has returned,
\* lines 91-94.
ValidateWhich ==
    /\ pc = "resolving"
    /\ LET r == which_step(Candidates(activity.provider.path.s), scan, fs)
       IN /\ scan' = r.scan
          /\ IF ~r.done
             THEN UNCHANGED <<pc, result, path>>
             ELSE /\ result' = validate_found(r.found, activity.name)
                  /\ IF validate_found(r.found, activity.name) # NoResult
                     THEN pc' = "idle" /\ path' = PyNone
                     ELSE pc' = "checking" /\ path' = r.found
    /\ UNCHANGED <<activity, configuration, secrets, others, fs, op, proc, spawned,
                   argv, expected, timeout, fresh, runFresh, current>>

\* validate_process_activity goes on: os.access and the return, lines 96-99.
ValidateAccess ==
    /\ pc = "checking"
    /\ result' = validate_access(path, activity.name, fs)
    /\ fresh' = (validate_access(path, activity.name, fs) = ReturnedNone
                    /\ current)
    /\ path' = PyNone
    /\ pc' = "idle"
    /\ UNCHANGED <<activity, configuration, secrets, others, fs, scan, op, proc,
                   spawned, argv, expected, timeout, runFresh, current>>

\* The engine calls run_process_activity(activity, configuration, secrets):
\* lines 33-42, up to the call of shutil.which at line 43 (which, for the
\* empty path, returns None with no file tried: lines 43-46 follow).
RunPrepare ==
    /\ pc = "idle"
    /\ op' = "run"
    /\ runFresh' = fresh
    /\ current' = TRUE
    /\ proc' = NoProc /\ spawned' = 0 /\ path' = PyNone
    /\ LET r == run_prepare(activity, configuration, secrets)
       IN /\ expected' = r.expected /\ timeout' = r.timeout
          /\ IF r.exc # "none"
             THEN /\ result' = Raised(r.exc, "")
                  /\ argv' = <<>> /\ pc' = "idle" /\ scan' = NoScan
             ELSE IF Candidates(activity.provider.path.s) = <<>>
             THEN /\ argv' = run_join(r.args, PyNone).args
                  /\ result' = Raised(run_join(r.args, PyNone).exc, "")
                  /\ pc' = "idle" /\ scan' = NoScan
             ELSE /\ result' = NoResult
                  /\ argv' = r.args /\ pc' = "searching"
                  /\ scan' = FirstScan
    /\ UNCHANGED <<activity, configuration, secrets, others, fs, fresh>>

\* shutil.which at line 43 makes one system call; when it has returned,
\* lines 43-46: the path is inserted and the command line joined.
RunWhich ==
    /\ pc = "searching"
    /\ LET r == which_step(Candidates(activity.provider.path.s), scan, fs)
       IN /\ scan' = r.scan
          /\ IF ~r.done
             THEN UNCHANGED <<pc, result, argv>>
             ELSE /\ argv' = run_join(argv, r.found).args
                  /\ IF run_join(argv, r.found).exc # "none"
                     THEN /\ result' = Raised(run_join(argv, r.found).exc, "")
                          /\ pc' = "idle"
                     ELSE /\ result' = result
                          /\ pc' = "spawning"
    /\ UNCHANGED <<activity, configuration, secrets, others, fs, op, path, proc,
                   spawned, expected, timeout, fresh, runFresh, current>>

\* subprocess.run at line 47 creates the process, which executes the
\* program or fails to; or the OS cannot create the pipes or the process.
RunSpawn ==
    /\ pc = "spawning"
    /\ \/ /\ spawned' = 1
          /\ IF spawn_error(argv, fs) = "none"
             THEN /\ proc' = Running
                  /\ pc' = "waiting" /\ result' = result
             ELSE /\ proc' = ExecFailed
                  /\ result' = Raised(spawn_error(argv, fs), "")
                  /\ pc' = "idle"
       \/ /\ \E e \in ResourceErrors : result' = Raised(e, "")
          /\ pc' = "idle" /\ UNCHANGED <<proc, spawned>>
    /\ UNCHANGED <<activity, configuration, secrets, others, fs, scan, op, path,
                   argv, expected, timeout, fresh, runFresh, current>>

\* The child process terminates by itself, possibly leaving a process
\* that holds its output pipes.
ChildTerminates ==
    /\ pc = "waiting" /\ proc.state = "running"
    /\ \E x \in Endings, h \in BOOLEAN : proc' = Exited(x[1], x[2], x[3], h)
    /\ UNCHANGED <<activity, configuration, secrets, others, fs, pc, scan, op,
                   result, path, spawned, argv, expected, timeout, fresh,
                   runFresh, current>>

\* The last holder of the output pipes closes them.
PipesClose ==
    /\ pc = "waiting" /\ proc.state = "exited" /\ proc.held
    /\ proc' = [proc EXCEPT !.held = FALSE]
    /\ UNCHANGED <<activity, configuration, secrets, others, fs, pc, scan, op,
                   result, path, spawned, argv, expected, timeout, fresh,
                   runFresh, current>>

\* subprocess.run has the child's exit and the end of its output: it
\* decodes the output and returns the completed process, lines 47-62.
RunCompletes ==
    /\ pc = "waiting" /\ proc.state = "exited" /\ ~proc.held
    /\ result' = completion_outcome(expected, proc)
    /\ pc' = "idle"
    /\ UNCHANGED <<activity, configuration, secrets, others, fs, scan, op, path,
                   proc, spawned, argv, expected, timeout, fresh, runFresh,
                   current>>

\* subprocess.run finds the deadline passed before it has collected the
\* child's exit and the end of its output (the child may have exited and
\* its pipes may be closed by then): it kills the child if it runs, waits
\* for it and raises TimeoutExpired, lines 51-52.
TimeoutExpired ==
    /\ pc = "waiting"
    /\ timeout # PyNone
    /\ proc' = proc_after_timeout(proc)
    /\ result' = timeout_outcome
    /\ pc' = "idle"
    /\ UNCHANGED <<activity, configuration, secrets, others, fs, scan, op, path,
                   spawned, argv, expected, timeout, fresh, runFresh,
                   current>>

\* Some other process creates, removes, replaces or changes the mode of a
\* file: between two calls, between two system calls of a call, or while
\* the call is blocked in subprocess.run.
FsChange ==
    /\ \E f \in Files, k \in Kinds :
          /\ <<f, k>> \in others
          /\ fs[f] # k
          /\ fs' = [fs EXCEPT ![f] = k]
    /\ fresh' = FALSE /\ current' = FALSE
    /\ UNCHANGED <<activity, configuration, secrets, others, pc, scan, op, result,
                   path, proc, spawned, argv, expected, timeout, runFresh>>

Next ==
    \/ ValidateEnter
    \/ ValidateWhich
    \/ ValidateAccess
    \/ RunPrepare
    \/ RunWhich
    \/ RunSpawn
    \/ ChildTerminates
    \/ PipesClose
    \/ RunCompletes
    \/ TimeoutExpired
    \/ FsChange

\* The steps of run_process_activity without a timeout.
NextArgs ==
    \/ RunPrepare
    \/ RunWhich
    \/ RunSpawn
    \/ ChildTerminates
    \/ PipesClose
    \/ RunCompletes
    \/ FsChange

Spec == Init /\ [][Next]_vars

SpecArgs == InitArgs /\ [][NextArgs]_vars

(* ------------------------------------------------------------------ *)
(* Properties                                                          *)
(* ------------------------------------------------------------------ *)
\* The arguments mapping run_process_activity flattens.
EffectiveArguments ==
    IF configuration # <<>> \/ secrets # <<>>
    THEN substitute(activity.provider.arguments, configuration, secrets)
    ELSE activity.provider.arguments

\* The j-th token of the mapping read pair by pair, key before value.
Token(m, j) == m[(j + 1) \div 2][IF j % 2 = 1 THEN 1 ELSE 2]
Tokens(m) == [j \in 1..(2 * Len(m)) |-> Token(m, j)]
NullOrEmpty(p) == p \in {PyNone, PyStr("")}

ExampleArguments ==
    <<<<PyStr("--flag"), PyStr("")>>,
      <<PyStr("--name"), PyStr("x")>>,
      <<PyStr("--skip"), PyNone>>>>

\* The position of token p in sequence s (0 when it is not there).
Position(s, p) ==
    IF \E j \in 1..Len(s) : s[j] = p
    THEN CHOOSE j \in 1..Len(s) : s[j] = p /\ \A k \in 1..(j - 1) : s[k] # p
    ELSE 0

\* The tokens of the entries whose value is neither None nor "".
RECURSIVE EntriesKept(_)
EntriesKept(m) ==
    IF m = <<>> THEN <<>>
    ELSE (IF NullOrEmpty(Head(m)[2]) THEN <<>>
          ELSE <<Head(m)[1], Head(m)[2]>>) \o EntriesKept(Tail(m))

\* C1 as stated: flattening drops the whole entry whose value is None or
\* "" (its key contributes no token), so that the example mapping
\* {"--flag": "", "--name": "x", "--skip": None} yields ["--name", "x"].
C1_EntriesDropped ==
    spawned = 1 =>
        /\ Tail(argv) = EntriesKept(EffectiveArguments)
        /\ activity.provider.arguments = ExampleArguments =>
               Tail(argv) = <<PyStr("--name"), PyStr("x")>>

\* C1 amended: flattening is order-preserving and drops only the tokens
\* that are None or "": a key whose value is None or "" still contributes
\* its own token, keys keep their mapping order, as many tokens are emitted
\* as the mapping has tokens other than None and "", and the example
\* mapping yields ["--flag", "--name", "x", "--skip"].
C1_TokensDropped ==
    spawned = 1 =>
        LET m == EffectiveArguments
            toks == Tail(argv)
        IN /\ \A j \in 1..Len(m) :
                 ~NullOrEmpty(m[j][1]) => Position(toks, m[j][1]) > 0
           /\ \A j, k \in 1..Len(m) :
                 (j < k /\ ~NullOrEmpty(m[j][1]) /\ ~NullOrEmpty(m[k][1]))
                    => Position(toks, m[j][1]) < Position(toks, m[k][1])
           /\ \A j \in 1..Len(toks) : ~NullOrEmpty(toks[j])
           /\ Len(toks) =
                 Cardinality({j \in 1..(2 * Len(m)) : ~NullOrEmpty(Token(m, j))})
           /\ activity.provider.arguments = ExampleArguments =>
                 toks = <<PyStr("--flag"), PyStr("--name"), PyStr("x"),
                          PyStr("--skip")>>

C1_Witness ==
    /\ spawned = 1
    /\ activity.provider.arguments = ExampleArguments
    /\ argv = <<PyStr("/bin/prog"), PyStr("--flag"), PyStr("--name"),
                PyStr("x"), PyStr("--skip")>>

\* C8: the argument vector given to the spawn primitive is the resolved
\* executable path (what the lookup of line 43 returned: a file the lookup
\* tried, and with the filesystem unchanged since the call was entered the
\* first executable file of the search) followed by the key and value
\* tokens of the (possibly substituted) mapping in iteration order, key
\* before value, with exactly the tokens that are None or "" removed.
C8_ArgumentVector ==
    spawned = 1 =>
        /\ \E j \in 1..Len(Candidates(activity.provider.path.s)) :
              argv[1] = PyStr(Candidates(activity.provider.path.s)[j])
        /\ current => argv[1] = which(activity.provider.path.s, fs)
        /\ Tail(argv) =
              SelectSeq(Tokens(EffectiveArguments),
                        LAMBDA p : ~NullOrEmpty(p))

C8_Witness ==
    /\ spawned = 1
    /\ configuration # <<>>
    /\ EffectiveArguments # activity.provider.arguments
    /\ Len(argv) > 2
    /\ Len(argv) < 1 + 2 * Len(EffectiveArguments)
    /\ argv[1] = PyStr("/usr/bin/prog")
    /\ current /\ fs["/bin/prog"] = "noexec"

\* The last call was validate_process_activity, it has ended, and the
\* filesystem has stood still since it was entered.
Validated == op = "validate" /\ pc = "idle" /\ current
\* The last call was run_process_activity and it has ended.
RunEnded == op = "run" /\ pc = "idle"
\* ... after its child terminated by itself.
ChildTerminated == RunEnded /\ proc.state = "exited"
\* ... by the deadline of subprocess.run.
TimedOut == result.kind = "FailedActivity" /\ result.msg = MsgTooLong
\* ... and subprocess.run had the child's exit and the end of its output
\* before any deadline passed.
RunCompleted == ChildTerminated /\ ~TimedOut
\* The bytes the child wrote are valid UTF-8.
Decodable ==
    decode(proc.stdout).exc = "none" /\ decode(proc.stderr).exc = "none"

ReturnCode == activity.expected_return_code
PathOf == activity.provider.path

\* C2 as stated: a return code that is present and not an integer, falsy
\* values such as "", 0.0 and [] included, makes validation fail with
\* "return code of a process activity must be an integer", whatever the path.
C2_NonIntegerRejected ==
    (Validated /\ ReturnCode.t \in {"str", "float", "list"})
        => (result.kind = "InvalidActivity" /\ result.msg = MsgInteger)

\* The files the current user has the execute permission for.
ExecBit == {"exec", "junk", "nointerp", "interp_noexec", "interp_notdir"}

\* The path names an existing file the user may not execute, and no
\* file the user may.
NamesNonExecutableFile ==
    /\ PathOf.t = "str" /\ PathOf.s \in Commands
    /\ IF HasDirname(PathOf.s)
       THEN Kind(PathOf.s, fs) = "noexec"
       ELSE /\ \E k \in 1..Len(SearchPath) :
                  Kind(Join(SearchPath[k], PathOf.s), fs) = "noexec"
            /\ \A k \in 1..Len(SearchPath) :
                  Kind(Join(SearchPath[k], PathOf.s), fs) \notin ExecBit

\* C3 as stated: with a valid return code, a path naming an existing file
\* without execute permission makes validation fail with "no access
\* permission to ...", not with "... cannot be found".
C3_NoAccessReported ==
    (Validated /\ ReturnCode.t \in {"absent", "int"}
        /\ NamesNonExecutableFile)
        => (result.kind = "InvalidActivity" /\ result.msg = MsgNoAccess)

\* The four conditions of the validator's contract, in its order, and the
\* message of the first that holds ("" when none does).
FirstViolation ==
    IF ReturnCode.t \notin {"absent", "none", "int"} THEN MsgInteger
    ELSE IF PathOf = Absent \/ PathOf = PyStr("") THEN MsgNoPath
    ELSE IF \A k \in 1..Len(SearchPath) :
               Kind(IF HasDirname(PathOf.s) THEN PathOf.s
                    ELSE Join(SearchPath[k], PathOf.s), fs)
                  \in {"absent", "loop", "dir", "dirnox"}
         THEN MsgNotFound
    ELSE IF \A k \in 1..Len(SearchPath) :
               Kind(IF HasDirname(PathOf.s) THEN PathOf.s
                    ELSE Join(SearchPath[k], PathOf.s), fs)
                  \notin ExecBit
         THEN MsgNoAccess
    ELSE ""

\* C4 as stated: validation reports the first of (1) non-integer return
\* code, (2) empty or absent path, (3) path not resolvable, (4) no execute
\* permission, and succeeds, returning nothing, exactly when none holds.
C4_FirstViolationReported ==
    Validated
        => IF FirstViolation = ""
           THEN result = ReturnedNone
           ELSE result.kind = "InvalidActivity" /\ result.msg = FirstViolation

\* Python's ==  between an exit code and a return code of the activity,
\* reading a decimal string as the number it spells.
EqualsCode(rc, v) ==
    CASE v.t = "int" -> v.i = rc
      [] v.t = "float" -> v.i = 10 * rc
      [] v.t = "str" -> v.s \in IntLiterals /\ LiteralValue(v.s) = rc
      [] OTHER -> FALSE

\* C5 as stated: when the child terminates, the call returns
\* (exit_code, stdout, stderr) iff the exit code equals the activity's
\* expected_return_code (0 when absent), and otherwise raises FailedActivity
\* with the actual code, the expected code, stdout and stderr.
C5_ReturnsIffEqual ==
    ChildTerminated =>
        LET e == Get(ReturnCode, PyInt(0))
            p == Completed(proc)
        IN IF EqualsCode(p.returncode, e)
           THEN result = Returned(p.returncode, p.stdout, p.stderr)
           ELSE /\ result.kind = "FailedActivity"
                /\ result.c = p.returncode
                /\ result.o = p.stdout /\ result.r = p.stderr

\* C5 amended: when subprocess.run has the child's exit and the end of its
\* output before any deadline passes, and the bytes the child wrote are
\* valid UTF-8, the call returns (exit_code, stdout, stderr) iff the exit
\* code equals int(expected_return_code) (0 when absent), the integer the
\* runner converts the value to (a fractional value is truncated toward
\* zero); otherwise it raises FailedActivity whose message holds the actual
\* code, that converted expected code, and the full stdout and stderr.
\* stdout and stderr are the decoded text, "\r\n" and "\r" read as "\n".
\* A call whose child terminated ends otherwise in two ways only: with
\* UnicodeDecodeError when the bytes are not valid UTF-8, and with the
\* "took too long" FailedActivity, holding no output, when a timeout is set
\* and subprocess.run finds the deadline passed.
C5_ReturnsIffEqualsConverted ==
    /\ (RunCompleted /\ Decodable) =>
        LET e == int(Get(ReturnCode, PyInt(0)))
            p == Completed(proc)
        IN /\ e.exc = "none"
           /\ ~proc.held
           /\ IF p.returncode = e.v
              THEN result = Returned(p.returncode, p.stdout, p.stderr)
              ELSE /\ result.kind = "FailedActivity"
                   /\ result.msg = MsgFailed
                   /\ result.c = p.returncode /\ result.e = e.v
                   /\ result.o = p.stdout /\ result.r = p.stderr
    /\ (RunCompleted /\ ~Decodable) =>
           (result = Raised("UnicodeDecodeError", "") /\ ~proc.held)
    /\ (ChildTerminated /\ TimedOut) =>
           (timeout # PyNone /\ result.o = "" /\ result.r = "")

C5_Witness ==
    /\ RunCompleted /\ Decodable
    /\ ReturnCode = PyFloat(15)
    /\ proc.returncode = 1 /\ proc.stdout = "a\r\nb"
    /\ result = Returned(1, "a\nb", "oops")

\* C6: when a timeout is set and the deadline elapses before the child
\* terminates, the call kills the child and raises FailedActivity("process
\* activity took too long to complete") holding no output; once the call
\* has ended this way the child is not running.
C6_TimeoutKillsChild ==
    [][ /\ (pc = "waiting" /\ proc.state = "running" /\ pc' = "idle")
            => /\ timeout # PyNone
               /\ result'.kind = "FailedActivity" /\ result'.msg = MsgTooLong
               /\ result'.o = "" /\ result'.r = ""
               /\ proc'.state = "killed"
        /\ (op' = "run" /\ result'.msg = MsgTooLong)
            => /\ pc' = "idle" /\ spawned' = 1
               /\ proc'.state \in {"killed", "exited"}
               /\ result'.kind = "FailedActivity"
               /\ result'.o = "" /\ result'.r = ""
      ]_vars

C6_Witness ==
    /\ RunEnded
    /\ result.kind = "FailedActivity" /\ result.msg = MsgTooLong
    /\ proc.state = "killed"
    /\ timeout = PyInt(5)

\* Every token the runner would pass after the path is a string.
TokensAreStrings ==
    \A j \in 1..(2 * Len(EffectiveArguments)) :
        LET p == Token(EffectiveArguments, j)
        IN NullOrEmpty(p) \/ p.t = "str"

\* The return code converts to an integer.
Converts == int(Get(ReturnCode, PyInt(0))).exc = "none"

\* A step that enters run_process_activity.
EntersRun == pc = "idle" /\ op' = "run" /\ fs' = fs

\* C7 as stated, for an activity whose return code converts, whose tokens
\* are strings and whose path is a command name: every call of
\* run_process_activity spawns exactly one process whatever the state of
\* the path, a path that does not resolve included.
C7_ExactlyOneProcess ==
    (RunEnded /\ Converts /\ TokensAreStrings
        /\ PathOf \in {PyStr(c) : c \in Commands})
        => spawned = 1

\* C7 amended: a call of run_process_activity creates at most one OS
\* process and never a second one.  It creates none before the spawn
\* primitive, which it reaches exactly when the return code converts to an
\* integer, the path is present, the lookup of line 43 returns a path (on a
\* filesystem that stands still during the call: the path resolves to an
\* executable) and every token left after the filtering is a string;
\* otherwise it raises before spawning.  The spawn primitive creates one
\* process unless the OS has no resources for it; that process runs the
\* program exactly when the resolved file is then a program the OS can
\* execute, and otherwise has ended when the OS error propagates.
C7_AtMostOneProcess ==
    [][ /\ spawned' \in {0, 1}
        /\ EntersRun =>
              /\ spawned' = 0
              /\ pc' \in {"idle", "searching"}
              /\ pc' = "searching" <=>
                    (Converts /\ PathOf # Absent /\ PathOf # PyStr(""))
        /\ (pc = "searching" /\ pc' # "searching") =>
              /\ spawned' = 0
              /\ pc' \in {"idle", "spawning"}
              /\ pc' = "spawning" <=> (argv'[1] # PyNone /\ TokensAreStrings)
              /\ current' => argv'[1] = which(PathOf.s, fs)
        /\ (pc = "spawning" /\ pc' # "spawning") =>
              /\ pc' \in {"idle", "waiting"}
              /\ pc' = "waiting" <=>
                    (spawned' = 1 /\ Kind(argv[1].s, fs) = "exec")
              /\ pc' = "waiting" <=> proc'.state = "running"
              /\ spawned' = 0 <=>
                    (result'.kind \in ResourceErrors /\ proc' = NoProc)
        /\ (op' = "run" /\ ~EntersRun /\ pc # "spawning") => spawned' = spawned
      ]_vars

C7_Witness ==
    /\ RunEnded /\ spawned = 0 /\ proc = NoProc
    /\ result.kind = "TypeError"
    /\ Converts /\ TokensAreStrings
    /\ PathOf \in {PyStr(c) : c \in Commands}
    /\ current /\ which(PathOf.s, fs) = PyNone

\* C9: InvalidActivity comes from validate_process_activity only, which
\* spawns no process; run_process_activity never raises InvalidActivity and
\* raises FailedActivity only after it has spawned its process, and only
\* for a timeout or an exit code other than the expected one.
C9_ErrorKindsSeparated ==
    /\ result.kind = "InvalidActivity" => op = "validate"
    /\ op = "validate" =>
          /\ spawned = 0 /\ proc = NoProc
          /\ result.kind \in {"none", "InvalidActivity", "return None"}
          /\ result.kind = "none" <=> pc \in {"resolving", "checking"}
    /\ result.kind = "FailedActivity" =>
          /\ op = "run" /\ spawned = 1
          /\ \/ result.msg = MsgTooLong
                   /\ proc.state \in {"killed", "exited"}
                   /\ timeout # PyNone
             \/ result.msg = MsgFailed /\ proc.state = "exited"
                   /\ proc.returncode # expected

C9_Witness ==
    /\ RunEnded /\ spawned = 1
    /\ result.kind = "FailedActivity" /\ result.msg = MsgFailed
    /\ result.c = 1 /\ result.e = 0 /\ result.r = "oops"
    /\ runFresh

\* The errors of the spawn primitive.
SpawnErrors ==
    {"FileNotFoundError", "PermissionError", "OSError", "NotADirectoryError",
     "BlockingIOError"}

\* C10 as stated, for an activity whose tokens are strings: a run entered
\* after validation accepted the same activity, on a filesystem that has
\* stood still since that validation was entered and with a spawn that did
\* not fail, ends by returning the outcome or by raising FailedActivity,
\* never with another error kind.
C10_ValidatedRunEndsCleanly ==
    (RunEnded /\ runFresh /\ current /\ TokensAreStrings
        /\ result.kind \notin SpawnErrors)
        => result.kind \in {"return", "FailedActivity"}

====
